---- MODULE Spec2Model ----
(***************************************************************************)
(* BabyBeat: the BeatTracker class of public/babybeat-core.js (the copy in *)
(* the enhanced initBabyBeat engine, its twin in the robust-mic engine and *)
(* the copy of the BabyBeat global), as a state machine; beside it the    *)
(* sample-level detector of the first initBabyBeat engine with its audio   *)
(* graph and monitor, the stabilised dual-band engine, the advanced        *)
(* engine, the recorder of BabyBeatEngine, the api/core serverless         *)
(* function and the Express server.  Every specification runs one          *)
(* component and holds the others still.                                   *)
(*                                                                         *)
(* Units.  Time is in milliseconds.  Levels (0..1 in the source) are in    *)
(* thousandths, so thresholdRise 0.12 is 120; the products peak*0.8 and    *)
(* peak*0.98 are rounded down to a thousandth.  Tolerance is in percent.   *)
(* Confidence (0..1 in the source) is in percent.  A median is carried as  *)
(* twice its value, so the half of an even-length median stays integral.   *)
(* The BPM values of the audio engines are in thousandths of a BPM, gains  *)
(* in thousandths.                                                         *)
(***************************************************************************)
EXTENDS Integers, Sequences, FiniteSets, TLC

\* ---------------------------------------------------------------- constants
null == -1

MIN_FETAL_BPM == 100
MAX_FETAL_BPM == 170
REFRACTORY_MS == 260
MIN_INTERVAL_MS == 300
MAX_INTERVAL_MS == 1200
INTERVAL_TOLERANCE == 12
MIN_BEATS_TO_CONFIRM == 4
thresholdRise == 120
thresholdFall == 80
MaxIntervals == 10
SmoothWindow == 6

\* The sample-level detector of the first initBabyBeat engine.  BPM_ALPHA
\* (0.15) is in percent; the literals 12 and 8 of onAudioProcess are named.
BPM_ALPHA == 15
BeatIntervalsCap == 12
MedianWindow == 8

\* The stabilised dual-band engine.  Its REFRACTORY_MS is 350; the alphas
\* (0.15, 0.10) are in percent.
FETAL_BPM_MIN == 100
FETAL_BPM_MAX == 190
MATERNAL_BPM_MIN == 50
MATERNAL_BPM_MAX == 110
DUAL_REFRACTORY_MS == 350
FETAL_ALPHA == 15
MATERNAL_ALPHA == 10
MAX_BPM_STEP == 6

\* The advanced engine.  BPM_SMOOTH_ALPHA (0.12) is in percent.
ADV_FETAL_BPM_MIN == 110
ADV_FETAL_BPM_MAX == 180
ADV_REFRACTORY_MS == 200
BPM_SMOOTH_ALPHA == 12

\* The cap of the monitor gain, in thousandths.
MAX_MONITOR_GAIN == 700

\* ------------------------------------------------------------------- bounds
\* The clock values process() is called with in the free-running
\* specification: every 250 ms and 50 ms later (0, 50, 250, 300, ...), which
\* gives falling edges 50, 200 and 250 ms after a beat (refractory), 300 and
\* 1200 ms after it (the ends of the window) and 1250 ms and more (too late).
\* The clock advances strictly from one call to the next.
MaxInstant == 21
Instants == { 250 * (i \div 2) + 50 * (i % 2) : i \in 0..MaxInstant }
\* The number of peaks played in scenario C.
MaxPeaksC == 8

\* The peaks of one long script (scenario N).
MaxPeaksN == 13

\* The threshold crossings of one sound script of the first engine, and the
\* listening sessions (start() calls that take effect) of one behaviour.
MaxPeaksE1 == 14
MaxSessions == 2

\* The requests api/core serves in one behaviour.
MaxRequests == 3

\* The loud buffers of one sound script of the dual-band engine.
MaxPeaksDual == 16

\* The peak buffers of one sound script of the advanced engine.
MaxPeaksAdv == 10

\* The invocations of start() that can be in progress at once.
MaxStarts == 2

\* The calls of startRecording and stopRecording made on one engine.
MaxRecCalls == 6

\* Input levels: silence, a moderate level, a full-scale peak.
Levels == {0, 500, 1000}

\* ------------------------------------------------------------------ options
\* BeatTracker of initBabyBeat (enhanced engine and its robust-mic twin):
\* defaults from the tunables, bpm clamped into the fetal range.
DefaultOpts ==
  [minBeats |-> MIN_BEATS_TO_CONFIRM, tolerance |-> INTERVAL_TOLERANCE,
   minInterval |-> MIN_INTERVAL_MS, maxInterval |-> MAX_INTERVAL_MS,
   refractory |-> REFRACTORY_MS, clamp |-> TRUE]

\* BeatTracker of the BabyBeat global: options from CONFIG, no clamp.
GlobalOpts ==
  [minBeats |-> 4, tolerance |-> 12, minInterval |-> 300, maxInterval |-> 1200,
   refractory |-> 260, clamp |-> FALSE]

\* Scenario A's options.
ScenarioAOpts ==
  [minBeats |-> 4, tolerance |-> 12, minInterval |-> 300, maxInterval |-> 750,
   refractory |-> REFRACTORY_MS, clamp |-> TRUE]

VARIABLES
  opts,        \* the tracker's options (set by the constructor, never changed)
  tracker,     \* the BeatTracker object's mutable fields
  now,         \* the clock value of the latest process() call
  result,      \* what the latest process() call since construction/reset returned
  beats,       \* history: calls that returned beat = true since construction/reset
  wasReset,    \* history: reset() was called on a tracker that held intervals
  fresh,       \* a tracker constructed anew at each reset(), fed the same inputs
  freshResult, \* what it returned on the latest call
  scn,         \* the input script being played (Free: none)
  accepts,     \* history: the intervals accepted since construction/reset
  life,        \* "none": no tracker yet; "ready": constructed ("failed",
               \* construction refused, is a value the code never produces)
  e1,          \* first initBabyBeat engine: running flag and detector state
  e1in,        \* the sound it hears, as a script over the audio clock
  api,         \* api/core: its environment and the latest request and response
  dual,        \* dual-band engine: detector state
  dualin,      \* the sound it hears, as a script over the audio clock
  adv,         \* advanced engine: detector state
  advin,       \* the sound it hears, as a script over the audio clock
  mon,         \* first engine: audio graph, monitor switch, slider, start() calls
  rec,         \* BabyBeatEngine: recorder, isRecording, API call history
  srv          \* Express server: ISSUED_TOKENS, latest request and response

\* The BeatTracker and its histories.
btVars ==
  <<opts, tracker, now, result, beats, wasReset, fresh, freshResult, scn,
    accepts, life>>

\* The first initBabyBeat engine.
e1Vars == <<e1, e1in>>

\* The api/core serverless function.
apiVars == <<api>>

\* The stabilised dual-band engine.
dualVars == <<dual, dualin>>

\* The advanced engine.
advVars == <<adv, advin>>

\* The first engine's audio graph and monitor.
monVars == <<mon>>

\* The BabyBeatEngine's recorder.
recVars == <<rec>>

\* The Express server.
srvVars == <<srv>>

vars ==
  <<btVars, e1Vars, apiVars, dualVars, advVars, monVars, recVars, srvVars>>

\* What the steps of one component leave alone.
notBt == <<e1Vars, apiVars, dualVars, advVars, monVars, recVars, srvVars>>
notE1 == <<btVars, apiVars, dualVars, advVars, monVars, recVars, srvVars>>
notApi == <<btVars, e1Vars, dualVars, advVars, monVars, recVars, srvVars>>
notDual == <<btVars, e1Vars, apiVars, advVars, monVars, recVars, srvVars>>
notAdv == <<btVars, e1Vars, apiVars, dualVars, monVars, recVars, srvVars>>
notMon == <<btVars, e1Vars, apiVars, dualVars, advVars, recVars, srvVars>>
notRec == <<btVars, e1Vars, apiVars, dualVars, advVars, monVars, srvVars>>
notSrv == <<btVars, e1Vars, apiVars, dualVars, advVars, monVars, recVars>>

\* ------------------------------------------------------------------ helpers
Max(a, b) == IF a >= b THEN a ELSE b
Min(a, b) == IF a <= b THEN a ELSE b
Abs(a) == IF a >= 0 THEN a ELSE -a

\* arr.slice(-n): for n > 0 the last n elements (all of them when there are
\* fewer); for n <= 0 it is arr.slice(|n|), the array without its first |n|
\* elements (slice(-0) is slice(0), the whole array).
sliceLast(arr, n) ==
  IF n > 0
  THEN IF Len(arr) <= n THEN arr ELSE SubSeq(arr, Len(arr) - n + 1, Len(arr))
  ELSE SubSeq(arr, 1 - n, Len(arr))

RECURSIVE insert(_, _)
insert(a, x) ==
  IF a = <<>> THEN <<x>>
  ELSE IF x < Head(a) THEN <<x>> \o a
  ELSE <<Head(a)>> \o insert(Tail(a), x)

\* [...arr].sort((x,y)=>x-y)
RECURSIVE sort(_)
sort(arr) == IF arr = <<>> THEN <<>> ELSE insert(sort(Tail(arr)), Head(arr))

\* median(arr), doubled: 2*a[m] for an odd length, a[m-1]+a[m] for an even one.
\* (Sequences are 1-based: the source's a[m] is a[m+1] here.)
median2(arr) ==
  IF Len(arr) = 0 THEN 0
  ELSE LET a == sort(arr)
           m == Len(a) \div 2
       IN IF Len(a) % 2 = 1 THEN 2 * a[m + 1] ELSE a[m] + a[m + 1]

\* Math.round(60000 / sm) with sm = sm2/2: floor(120000/sm2 + 1/2).
roundBpm(sm2) == (240000 + sm2) \div (2 * sm2)

\* recent.every(i => Math.abs(i - med) <= tolerance * med), med = med2/2,
\* tolerance in percent.
withinTolerance(recent, med2, tolerance) ==
  \A k \in 1..Len(recent) : 100 * Abs(2 * recent[k] - med2) <= tolerance * med2

\* ---------------------------------------------------------------- the class
\* constructor: the mutable fields of a new tracker.
construct ==
  [lastBeatAt |-> 0, state |-> "below", peak |-> 0, intervals |-> <<>>,
   hasPattern |-> FALSE, bpm |-> null, confidence |-> 0]

\* A slip in the eviction: a full list drops the interval just pushed instead
\* of the oldest one.
pushIntervalDropNewest(intervals, dt) ==
  IF Len(intervals) >= MaxIntervals THEN intervals ELSE Append(intervals, dt)

\* _register: this.intervals.push(dt); if (length > 10) this.intervals.shift()
pushInterval(intervals, dt) ==
  LET pushed == Append(intervals, dt)
  IN IF Len(pushed) > MaxIntervals THEN Tail(pushed) ELSE pushed

\* A slip in the consistency test: only the newest interval is compared with
\* the median of the recent ones.
consistentNewestOnly(ivs, o) ==
  LET recent == sliceLast(ivs, o.minBeats - 1)
  IN withinTolerance(<<ivs[Len(ivs)]>>, median2(recent), o.tolerance)

\* _register: the last minBeats-1 intervals all lie within tolerance of their
\* median.
consistent(ivs, o) ==
  LET recent == sliceLast(ivs, o.minBeats - 1)
  IN withinTolerance(recent, median2(recent), o.tolerance)

\* _register: bpm from the median of the last 6 intervals; the initBabyBeat
\* copies clamp it into [MIN_FETAL_BPM, MAX_FETAL_BPM], the BabyBeat global
\* does not.
bpmOf(ivs, o) ==
  LET raw == roundBpm(median2(sliceLast(ivs, SmoothWindow)))
  IN IF o.clamp THEN Min(MAX_FETAL_BPM, Max(MIN_FETAL_BPM, raw)) ELSE raw

\* _register: the branch taken when the recent intervals are consistent.
locked(tr, o, ivs) ==
  [tr EXCEPT !.intervals = ivs, !.hasPattern = TRUE, !.bpm = bpmOf(ivs, o),
             !.confidence = Min(100, Len(ivs) * 8 + 20)]

\* A slip in the no-pattern branches: the last confidence is left in place.
unlockedKeepConfidence(tr, ivs) ==
  [tr EXCEPT !.intervals = ivs, !.hasPattern = FALSE, !.bpm = null]

\* A slip in the no-pattern branches: the last bpm is left in place.
unlockedKeepBpm(tr, ivs) ==
  [tr EXCEPT !.intervals = ivs, !.hasPattern = FALSE, !.confidence = 0]

\* _register: both branches that report no pattern (inconsistent intervals,
\* or fewer than minBeats-1 of them).
unlocked(tr, ivs) ==
  [tr EXCEPT !.intervals = ivs, !.hasPattern = FALSE, !.bpm = null,
             !.confidence = 0]

\* _register(dt) / _registerInterval(dt)
register(tr, o, dt) ==
  LET ivs == pushInterval(tr.intervals, dt)
  IN IF Len(ivs) >= o.minBeats - 1
     THEN IF consistent(ivs, o) THEN locked(tr, o, ivs) ELSE unlocked(tr, ivs)
     ELSE unlocked(tr, ivs)

\* A slip in the window test: the upper end of the window is not checked.
acceptedNoMax(o, dt) == dt > o.refractory /\ dt >= o.minInterval

\* A slip in the window test: only the upper end of the window is checked.
acceptedNoMin(o, dt) == dt <= o.maxInterval

\* Whether a falling edge dt after the last beat is accepted as a beat.
accepted(o, dt) == dt > o.refractory /\ dt >= o.minInterval /\ dt <= o.maxInterval

\* A slip in process(): the beat is taken on the rising edge.
processOnRise(tr, o, level, t) ==
  LET rising == tr.state = "below" /\ level > tr.peak + thresholdRise
      falling == tr.state = "above" /\ level < tr.peak - thresholdFall
      dt == t - tr.lastBeatAt
  IN IF rising
     THEN LET t1 == IF accepted(o, dt)
                    THEN register([tr EXCEPT !.lastBeatAt = t], o, dt)
                    ELSE tr
          IN [tracker |-> [t1 EXCEPT !.state = "above", !.peak = level],
              beat |-> accepted(o, dt)]
     ELSE IF tr.state = "above"
     THEN LET pk == IF level > tr.peak THEN level ELSE tr.peak
          IN IF falling
             THEN [tracker |-> [tr EXCEPT !.state = "below",
                                          !.peak = (pk * 8) \div 10],
                   beat |-> FALSE]
             ELSE [tracker |-> [tr EXCEPT !.peak = pk], beat |-> FALSE]
     ELSE LET d == Max(0, (tr.peak * 98) \div 100)
          IN [tracker |-> [tr EXCEPT !.peak = IF level > d THEN level ELSE d],
              beat |-> FALSE]

\* process(level, now): the tracker after the call and the beat flag.
process(tr, o, level, t) ==
  LET rising == tr.state = "below" /\ level > tr.peak + thresholdRise
      falling == tr.state = "above" /\ level < tr.peak - thresholdFall
  IN IF rising
     THEN [tracker |-> [tr EXCEPT !.state = "above", !.peak = level],
           beat |-> FALSE]
     ELSE IF tr.state = "above"
     THEN LET pk == IF level > tr.peak THEN level ELSE tr.peak
          IN IF falling
             THEN LET dt == t - tr.lastBeatAt
                      t1 == IF accepted(o, dt)
                            THEN register([tr EXCEPT !.lastBeatAt = t], o, dt)
                            ELSE tr
                  IN [tracker |-> [t1 EXCEPT !.state = "below",
                                             !.peak = (pk * 8) \div 10],
                      beat |-> accepted(o, dt)]
             ELSE [tracker |-> [tr EXCEPT !.peak = pk], beat |-> FALSE]
     ELSE LET d == Max(0, (tr.peak * 98) \div 100)
          IN [tracker |-> [tr EXCEPT !.peak = IF level > d THEN level ELSE d],
              beat |-> FALSE]

\* The object process() returns.
resultOf(p) ==
  [beat |-> p.beat, bpm |-> p.tracker.bpm, hasPattern |-> p.tracker.hasPattern,
   confidence |-> p.tracker.confidence]

\* A slip in reset(): the baseline memory _peak is not cleared.
resetKeepPeak(tr) ==
  [tr EXCEPT !.lastBeatAt = 0, !.state = "below", !.intervals = <<>>,
             !.hasPattern = FALSE, !.bpm = null, !.confidence = 0]

\* reset()
reset(tr) ==
  [tr EXCEPT !.lastBeatAt = 0, !.state = "below", !.peak = 0,
             !.intervals = <<>>, !.hasPattern = FALSE, !.bpm = null,
             !.confidence = 0]

NoResult == [beat |-> FALSE, bpm |-> null, hasPattern |-> FALSE, confidence |-> 0]

\* --------------------------------------------- the first initBabyBeat engine
\* BPM values are in thousandths of a beat per minute.
\* clamp(v, lo, hi)
clamp(v, lo, hi) == Min(hi, Max(lo, v))

\* A slip in ema: the previous and the new value change places.
emaSwapped(prev, value, alpha) ==
  LET d == alpha * (prev - value)
  IN value + (IF d >= 0 THEN d \div 100 ELSE -((-d) \div 100))

\* ema(prev, value, alpha) = prev + alpha * (value - prev), alpha in percent,
\* the product rounded toward zero to a thousandth.
ema(prev, value, alpha) ==
  LET d == alpha * (value - prev)
  IN prev + (IF d >= 0 THEN d \div 100 ELSE -((-d) \div 100))

\* 60000 / medInt in thousandths of a BPM, medInt = med2/2.
rawBpmOf(med2) == 120000000 \div med2

\* A slip: the raw BPM is not clamped into the fetal range.
displayTargetNoClamp(med2) == rawBpmOf(med2)

\* rawBpm after clamp(rawBpm, MIN_FETAL_BPM, MAX_FETAL_BPM).
displayTarget(med2) ==
  clamp(rawBpmOf(med2), 1000 * MIN_FETAL_BPM, 1000 * MAX_FETAL_BPM)

\* beatIntervals.push(interval); if (length > 12) shift().
pushBeatInterval(intervals, interval) ==
  LET pushed == Append(intervals, interval)
  IN IF Len(pushed) > BeatIntervalsCap THEN Tail(pushed) ELSE pushed

\* A slip: a BPM outside the fetal range is thrown away instead of clamped,
\* and bpmDisplay keeps its value.
recordIntervalDiscard(e, interval) ==
  LET ivs == pushBeatInterval(e.beatIntervals, interval)
      med2 == median2(sliceLast(ivs, MedianWindow))
      raw == rawBpmOf(med2)
  IN IF med2 > 0 /\ raw >= 1000 * MIN_FETAL_BPM /\ raw <= 1000 * MAX_FETAL_BPM
     THEN [e EXCEPT !.beatIntervals = ivs,
                    !.bpmDisplay = ema(IF e.bpmDisplay = 0 THEN raw
                                       ELSE e.bpmDisplay, raw, BPM_ALPHA)]
     ELSE [e EXCEPT !.beatIntervals = ivs]

\* An in-window interval: it is recorded and bpmDisplay is smoothed toward the
\* clamped BPM of the median of the last 8 intervals (bpmDisplay || rawBpm:
\* from that BPM itself when bpmDisplay is 0).
recordInterval(e, interval) ==
  LET ivs == pushBeatInterval(e.beatIntervals, interval)
      med2 == median2(sliceLast(ivs, MedianWindow))
      raw == displayTarget(med2)
  IN IF med2 > 0
     THEN [e EXCEPT !.beatIntervals = ivs,
                    !.bpmDisplay = ema(IF e.bpmDisplay = 0 THEN raw
                                       ELSE e.bpmDisplay, raw, BPM_ALPHA)]
     ELSE [e EXCEPT !.beatIntervals = ivs]

\* A slip in the beat branch: a crossing whose interval falls outside the
\* window does not become the new lastBeatTime.
registerBeatKeepAnchor(e, nowMs) ==
  LET dt == nowMs - e.lastBeatTime
  IN IF e.lastBeatTime > 0
     THEN IF dt >= MIN_INTERVAL_MS /\ dt <= MAX_INTERVAL_MS
          THEN [recordInterval(e, dt) EXCEPT !.lastBeatTime = nowMs]
          ELSE e
     ELSE [e EXCEPT !.lastBeatTime = nowMs]

\* The body of the beat branch of onAudioProcess.
registerBeat(e, nowMs) ==
  LET dt == nowMs - e.lastBeatTime
      e2 == IF e.lastBeatTime > 0 /\ dt >= MIN_INTERVAL_MS /\ dt <= MAX_INTERVAL_MS
            THEN recordInterval(e, dt)
            ELSE e
  IN [e2 EXCEPT !.lastBeatTime = nowMs]

\* onAudioProcess for one buffer.  nowMs is read once per buffer, so the
\* samples of a buffer share one dt: the first candidate sample that passes
\* the timing test registers a beat and the rest of the buffer sees dt = 0.
\* candidate: some sample of the buffer crosses the threshold.
onAudioProcess(e, candidate, nowMs) ==
  LET dt == nowMs - e.lastBeatTime
  IN IF candidate /\ dt > REFRACTORY_MS /\ dt > MIN_INTERVAL_MS
     THEN registerBeat(e, nowMs)
     ELSE e

\* The engine before start(): detector state as declared, and the histories
\* clock (audio time of the latest buffer), crossed (it held a candidate
\* sample), sessions (start() calls that took effect) and fresh (no buffer
\* since the latest start()).
E1New ==
  [running |-> FALSE, lastBeatTime |-> 0, bpmDisplay |-> 0,
   beatIntervals |-> <<>>, clock |-> 0, crossed |-> FALSE, sessions |-> 0,
   fresh |-> FALSE]

\* No sound script.
E1NoInput == [peaks |-> {}, k |-> 0, frames |-> 0]

\* The engine is not in use.
E1Idle == e1 = E1New /\ e1in = E1NoInput

\* ------------------------------------------------------------------ api/core
\* JavaScript values that reach the handler: undefined, a string, or an array
\* of strings (a query parameter given twice); v is the string, for an array
\* its first element.
Undefined == [type |-> "undefined", v |-> ""]

Str(v) == [type |-> "string", v |-> v]

Arr(v) == [type |-> "array", v |-> v]

\* !x for these values: undefined and the empty string are falsy.
falsy(x) == x.type = "undefined" \/ (x.type = "string" /\ x.v = "")

\* a === b: same type and value; two array objects are never identical.
strictEq(a, b) ==
  /\ a.type = b.type
  /\ a.type # "array"
  /\ a.v = b.v

\* A slip in the handler: the token is compared, but CORE_TOKEN is not
\* required to be set.
coreNoEnvCheck(token, valid, exists) ==
  IF ~strictEq(token, valid)
  THEN [status |-> 403, body |-> "Forbidden"]
  ELSE IF ~exists
  THEN [status |-> 404, body |-> "Core not found"]
  ELSE [status |-> 200, body |-> "core"]

\* module.exports(req, res): the response for a request whose query carries
\* token, with CORE_TOKEN = valid; exists: public/babybeat-core.js is there.
\* The body "core" stands for the content of that file.
core(token, valid, exists) ==
  IF falsy(valid) \/ ~strictEq(token, valid)
  THEN [status |-> 403, body |-> "Forbidden"]
  ELSE IF ~exists
  THEN [status |-> 404, body |-> "Core not found"]
  ELSE [status |-> 200, body |-> "core"]

\* The values CORE_TOKEN can have (process.env holds strings or nothing), and
\* the token values requests carry.
EnvValues == {Undefined, Str(""), Str("s3cret"), Str("other")}

TokenValues ==
  {Undefined, Str(""), Str("s3cret"), Str("other"), Str("S3CRET"),
   Arr("s3cret")}

\* The function deployed with CORE_TOKEN = valid, before any request.
ApiNew(valid, exists) ==
  [valid |-> valid, exists |-> exists, token |-> Undefined, status |-> 0,
   body |-> "", requests |-> 0]

ApiIdle == api = ApiNew(Undefined, FALSE)

\* ------------------------------------------- the stabilised dual-band engine
\* BPM values are in thousandths of a beat per minute; an interval ms is
\* compared with a BPM b through 60000 >= b * ms, which is exact.
RECURSIVE sum(_)
sum(arr) == IF arr = <<>> THEN 0 ELSE Head(arr) + sum(Tail(arr))

\* 60000 / ms in thousandths of a BPM.
bpmOfMs(ms) == 60000000 \div ms

\* b >= 40 && b <= 220 for b = 60000 / ms.
saneMs(ms) == 40 * ms <= 60000 /\ 220 * ms >= 60000

\* A slip: the step limiter is left out.
limitStepOff(prevBpm, smoothed) == smoothed

\* if (prevBpm) { step = smoothed - prevBpm; if (|step| > MAX_BPM_STEP)
\* smoothed = prevBpm + sign(step) * MAX_BPM_STEP }
limitStep(prevBpm, smoothed) ==
  IF prevBpm # 0 /\ Abs(smoothed - prevBpm) > 1000 * MAX_BPM_STEP
  THEN IF smoothed > prevBpm THEN prevBpm + 1000 * MAX_BPM_STEP
       ELSE prevBpm - 1000 * MAX_BPM_STEP
  ELSE smoothed

\* computeStableBpmFromIntervals(intervals, prevBpm, isFetal); prevBpm || 0 is
\* prevBpm.  The mean and the weighted sum are rounded down to a thousandth.
computeStableBpmFromIntervals(intervals, prevBpm, isFetal) ==
  IF Len(intervals) < 4 THEN prevBpm
  ELSE
    LET recent == sliceLast(intervals, IF isFetal THEN 12 ELSE 16)
        kept == SelectSeq(recent, LAMBDA ms : ms > 0 /\ saneMs(ms))
        bpmVals == [i \in 1..Len(kept) |-> bpmOfMs(kept[i])]
        med2 == median2(bpmVals)
        tol == IF isFetal THEN 20000 ELSE 15000
        inCluster == SelectSeq(bpmVals, LAMBDA b : Abs(2 * b - med2) <= 2 * tol)
        sorted == sort(inCluster)
        cut == Max(1, Len(sorted) \div 5)
        trimmed == SubSeq(sorted, cut + 1, Len(sorted) - cut)
        base == IF trimmed # <<>> THEN trimmed ELSE sorted
        avgBpm == sum(base) \div Len(base)
        alpha == IF isFetal THEN FETAL_ALPHA ELSE MATERNAL_ALPHA
        smoothed == IF prevBpm # 0
                    THEN (alpha * avgBpm + (100 - alpha) * prevBpm) \div 100
                    ELSE avgBpm
        limited == limitStep(prevBpm, smoothed)
    IN IF Len(bpmVals) < 3 \/ med2 = 0 \/ inCluster = <<>> THEN prevBpm
       ELSE IF isFetal
       THEN clamp(limited, 1000 * FETAL_BPM_MIN, 1000 * FETAL_BPM_MAX)
       ELSE clamp(limited, 1000 * MATERNAL_BPM_MIN, 1000 * MATERNAL_BPM_MAX)

\* intervals.push(interval); if (length > 20) shift().
pushDual(intervals, interval) ==
  LET pushed == Append(intervals, interval)
  IN IF Len(pushed) > 20 THEN Tail(pushed) ELSE pushed

\* A slip: the upper end of the fetal window is not tested.
inFetalWindowNoMax(interval) == FETAL_BPM_MAX * interval >= 60000

\* interval >= FETAL_MIN_MS && interval <= FETAL_MAX_MS, the bounds being
\* 60000 / FETAL_BPM_MAX and 60000 / FETAL_BPM_MIN.
inFetalWindow(interval) ==
  FETAL_BPM_MAX * interval >= 60000 /\ FETAL_BPM_MIN * interval <= 60000

inMaternalWindow(interval) ==
  MATERNAL_BPM_MAX * interval >= 60000 /\ MATERNAL_BPM_MIN * interval <= 60000

\* registerBeat(nowMs, ...), without the lastBeatTime its caller sets.
dualRegisterBeat(d, nowMs) ==
  IF d.lastBeatTime <= 0 THEN [d EXCEPT !.lastBeatTime = nowMs]
  ELSE
    LET interval == nowMs - d.lastBeatTime
        f == pushDual(d.fetalIntervals, interval)
        d1 == IF inFetalWindow(interval)
              THEN [d EXCEPT !.fetalIntervals = f,
                     !.fetalBpm = computeStableBpmFromIntervals(f, d.fetalBpm, TRUE)]
              ELSE d
        m == pushDual(d1.maternalIntervals, interval)
        d2 == IF inMaternalWindow(interval)
              THEN [d1 EXCEPT !.maternalIntervals = m,
                     !.maternalBpm =
                       computeStableBpmFromIntervals(m, d1.maternalBpm, FALSE)]
              ELSE d1
    IN IF ~saneMs(interval) THEN d ELSE d2

\* A slip: the refractory test is left out.
dualOnAudioProcessNoRefractory(d, rising, nowMs) ==
  IF rising
  THEN [dualRegisterBeat(d, nowMs) EXCEPT
          !.lastBeatTime = nowMs, !.calls = sliceLast(Append(@, nowMs), 2)]
  ELSE d

\* onAudioProcess for one buffer; rising: the buffer's peak is over the
\* threshold.  calls notes when registerBeat was invoked.
dualOnAudioProcess(d, rising, nowMs) ==
  IF rising /\ nowMs - d.lastBeatTime > DUAL_REFRACTORY_MS
  THEN [dualRegisterBeat(d, nowMs) EXCEPT
          !.lastBeatTime = nowMs, !.calls = sliceLast(Append(@, nowMs), 2)]
  ELSE d

\* Detector state as declared, and the histories clock (audio time of the
\* latest buffer), rose (its peak was over the threshold) and calls (the
\* audio times of the latest two registerBeat invocations).
DualNew ==
  [lastBeatTime |-> 0, fetalIntervals |-> <<>>, maternalIntervals |-> <<>>,
   fetalBpm |-> 0, maternalBpm |-> 0, clock |-> 0, rose |-> FALSE,
   calls |-> <<>>]

DualIdle == dual = DualNew /\ dualin = E1NoInput

\* ------------------------------------------------------ the advanced engine
\* interval >= MIN_INTERVAL_MS, which is 60000 / FETAL_BPM_MAX (333.3 ms).
advAtLeastMin(ms) == ADV_FETAL_BPM_MAX * ms >= 60000

\* interval <= MAX_INTERVAL_MS, which is 60000 / FETAL_BPM_MIN (545.5 ms).
advAtMostMax(ms) == ADV_FETAL_BPM_MIN * ms <= 60000

\* The timing part of the beat test of onAudioProcess:
\* t > REFRACTORY_MS && t >= MIN_INTERVAL_MS && t <= MAX_INTERVAL_MS * 1.5.
advTiming(t) ==
  /\ t > ADV_REFRACTORY_MS
  /\ advAtLeastMin(t)
  /\ 2 * ADV_FETAL_BPM_MIN * t <= 3 * 60000

\* beatIntervals.push(...); if (length > 16) shift().  Of the entries
\* { interval, quality, time } only the interval is kept.
pushAdv(intervals, interval) ==
  LET pushed == Append(intervals, interval)
  IN IF Len(pushed) > 16 THEN Tail(pushed) ELSE pushed

\* registerBeat(nowMs, metric, snr).  good: calculateBeatQuality gave more
\* than MIN_CONFIDENCE_THRESHOLD, which depends on the metric and the
\* signal-to-noise ratio of the buffer.  bpmDisplay is in thousandths of a
\* BPM; confidence and the beat pattern are not carried.
advRegisterBeat(a, nowMs, good) ==
  LET interval == nowMs - a.lastBeatTime
      ivs == pushAdv(a.beatIntervals, interval)
      validBeats == SelectSeq(ivs, LAMBDA b : advAtLeastMin(b) /\ advAtMostMax(b))
      med2 == median2(sliceLast(validBeats, 10))
      rawBpm == clamp(rawBpmOf(med2), 1000 * ADV_FETAL_BPM_MIN,
                      1000 * ADV_FETAL_BPM_MAX)
      a1 == IF a.lastBeatTime > 0 /\ advAtLeastMin(interval) /\ good
            THEN IF Len(validBeats) >= 4 /\ med2 > 0
                 THEN [a EXCEPT !.beatIntervals = ivs,
                        !.bpmDisplay = ema(IF a.bpmDisplay = 0 THEN rawBpm
                                           ELSE a.bpmDisplay, rawBpm,
                                           BPM_SMOOTH_ALPHA)]
                 ELSE [a EXCEPT !.beatIntervals = ivs]
            ELSE a
  IN [a1 EXCEPT !.lastBeatTime = nowMs]

\* The beat detection of onAudioProcess for one buffer; isPeak: the
\* detection metric, envelope and signal-to-noise tests all pass.
advOnAudioProcess(a, isPeak, good, nowMs) ==
  IF isPeak /\ advTiming(nowMs - a.lastBeatTime)
  THEN advRegisterBeat(a, nowMs, good)
  ELSE a

\* Detection state as declared, and the history clock (audio time of the
\* latest buffer).
AdvNew == [lastBeatTime |-> 0, beatIntervals |-> <<>>, bpmDisplay |-> 0,
           clock |-> 0]

\* No sound script.
AdvNoInput == [peaks |-> {}, weak |-> {}, k |-> 0, frames |-> 0]

AdvIdle == adv = AdvNew /\ advin = AdvNoInput

\* ------------------------------------- the first engine: graph and monitor

\* The state the engine keeps about its audio graph.  Gains are in thousandths;
\* audioCtx, mediaStream and monitorGain are 0 for null and otherwise the number
\* of the object they refer to; gains[n] is the gain of the n-th gain node that
\* was created; contexts, streams and processors count the objects created;
\* pc[i] is the position of the i-th invocation of start().
MonNew ==
  [running |-> FALSE, monitorOn |-> FALSE, hasSlider |-> TRUE, vol |-> 0,
   audioCtx |-> 0, mediaStream |-> 0, monitorGain |-> 0, gains |-> <<>>,
   contexts |-> 0, streams |-> 0, processors |-> 0,
   pc |-> [i \in 1..MaxStarts |-> "idle"]]

MonIdle == mon = MonNew

\* applyMonitorVolume() without the monitorOn test.
applyMonitorVolumeAlways(m) ==
  IF m.monitorGain = 0 \/ ~m.hasSlider THEN m
  ELSE [m EXCEPT !.gains[m.monitorGain] =
          (clamp(m.vol, 0, 100) * MAX_MONITOR_GAIN) \div 100]

\* applyMonitorVolume(): nothing without a gain node or a slider; otherwise
\* the slider's value, clamped to 0..1 and scaled by the cap, or 0 when the
\* monitor is off.
applyMonitorVolume(m) ==
  IF m.monitorGain = 0 \/ ~m.hasSlider THEN m
  ELSE [m EXCEPT !.gains[m.monitorGain] =
          IF m.monitorOn
            THEN (clamp(m.vol, 0, 100) * MAX_MONITOR_GAIN) \div 100
            ELSE 0]

\* toggleMonitor()
toggleMonitor(m) == applyMonitorVolume([m EXCEPT !.monitorOn = ~m.monitorOn])

\* setMonitorVol(percent): the slider takes the clamped value, if there is one.
setMonitorVol(m, percent) ==
  applyMonitorVolume(
    IF m.hasSlider THEN [m EXCEPT !.vol = clamp(percent, 0, 100)] ELSE m)

\* The slider's input listener, after the slider took the value v.
sliderInput(m, v) == applyMonitorVolume([m EXCEPT !.vol = v])

\* start() up to its first suspension: nothing when running; with a context and
\* a stream it goes on to resume the context; otherwise ensureContextAndStream
\* creates a context and waits for the microphone.
startCall(m, i) ==
  IF m.running THEN m
  ELSE IF m.audioCtx # 0 /\ m.mediaStream # 0
    THEN [m EXCEPT !.pc[i] = "resume"]
    ELSE [m EXCEPT !.contexts = @ + 1, !.audioCtx = m.contexts + 1,
                   !.pc[i] = "mic"]

\* The rest of ensureContextAndStream once getUserMedia resolved: the stream,
\* the filters, the muted monitor gain node and the processor.
micGranted(m, i) ==
  [m EXCEPT !.streams = @ + 1, !.mediaStream = m.streams + 1,
            !.gains = Append(@, 0), !.monitorGain = Len(m.gains) + 1,
            !.processors = @ + 1, !.pc[i] = "resume"]

\* The rest of start().
startDone(m, i) ==
  applyMonitorVolume([m EXCEPT !.running = TRUE, !.pc[i] = "idle"])

\* stop()
stop(m) == applyMonitorVolume([m EXCEPT !.running = FALSE])

\* ---------------------------------------------- BabyBeatEngine: recording

\* The engine's recorder: mediaRecorder is "null" or the recorder's state;
\* log is the history of the API calls that found a recorder, calls counts all.
RecNew ==
  [mediaDest |-> FALSE, mediaRecorder |-> "null", isRecording |-> FALSE,
   log |-> <<>>, calls |-> 0]

RecIdle == rec = RecNew

\* setupRecorder(stream): a new, inactive recorder, unless MediaRecorder throws.
setupRecorder(r, ok) ==
  IF ok THEN [r EXCEPT !.mediaRecorder = "inactive"] ELSE r

\* The part of startListening that taps the recorder.
startListening(r, ok) == setupRecorder([r EXCEPT !.mediaDest = TRUE], ok)

\* toggleRecording(), reached through the API's startRecording or
\* stopRecording: sets a recorder up if it can, returns without one, stops a
\* recorder that is recording and starts one that is not.
toggleRecording(r, ok, call) ==
  LET s == IF r.mediaRecorder = "null" /\ r.mediaDest
             THEN setupRecorder(r, ok) ELSE r
  IN  IF s.mediaRecorder = "null" THEN [s EXCEPT !.calls = @ + 1]
      ELSE IF s.mediaRecorder = "recording"
        THEN [s EXCEPT !.mediaRecorder = "inactive", !.isRecording = FALSE,
                       !.log = Append(@, call), !.calls = @ + 1]
        ELSE [s EXCEPT !.mediaRecorder = "recording", !.isRecording = TRUE,
                       !.log = Append(@, call), !.calls = @ + 1]

\* ------------------------------------------------------- the Express server

\* What stripe.checkout.sessions.retrieve gives for a session id: the
\* session's payment_status, or "throws" for an id Stripe does not know.
paymentStatus(id) ==
  IF id = "cs_paid" THEN "paid"
  ELSE IF id = "cs_unpaid" THEN "unpaid"
  ELSE IF id = "cs_free" THEN "no_payment_required"
  ELSE "throws"

\* The server: ISSUED_TOKENS, the history of the tokens answered for paid
\* sessions, and the latest request with its response.
SrvNew ==
  [ISSUED_TOKENS |-> {}, paidFor |-> {},
   last |-> [route |-> "none", input |-> Undefined, status |-> 0,
             body |-> "", token |-> ""]]

SrvIdle == srv = SrvNew

\* POST /verify-session without the payment_status test.
verifySessionAnyStatus(s, session_id, token) ==
  IF falsy(session_id)
  THEN [s EXCEPT !.last = [route |-> "verify-session", input |-> session_id,
                           status |-> 400, body |-> "Missing session_id",
                           token |-> ""]]
  ELSE IF paymentStatus(session_id.v) = "throws"
  THEN [s EXCEPT !.last = [route |-> "verify-session", input |-> session_id,
                           status |-> 400, body |-> "Invalid session_id",
                           token |-> ""]]
  ELSE [s EXCEPT !.ISSUED_TOKENS = @ \cup {token},
                 !.paidFor = IF paymentStatus(session_id.v) = "paid"
                               THEN @ \cup {token} ELSE @,
                 !.last = [route |-> "verify-session", input |-> session_id,
                           status |-> 200, body |-> "token",
                           token |-> token]]

\* POST /verify-session with body {session_id}; token is what
\* crypto.randomBytes(32).toString('hex') gives.
verifySession(s, session_id, token) ==
  IF falsy(session_id)
  THEN [s EXCEPT !.last = [route |-> "verify-session", input |-> session_id,
                           status |-> 400, body |-> "Missing session_id",
                           token |-> ""]]
  ELSE IF paymentStatus(session_id.v) = "throws"
  THEN [s EXCEPT !.last = [route |-> "verify-session", input |-> session_id,
                           status |-> 400, body |-> "Invalid session_id",
                           token |-> ""]]
  ELSE IF paymentStatus(session_id.v) = "paid"
  THEN [s EXCEPT !.ISSUED_TOKENS = @ \cup {token},
                 !.paidFor = @ \cup {token},
                 !.last = [route |-> "verify-session", input |-> session_id,
                           status |-> 200, body |-> "token",
                           token |-> token]]
  ELSE [s EXCEPT !.last = [route |-> "verify-session", input |-> session_id,
                           status |-> 403, body |-> "Payment not completed",
                           token |-> ""]]

\* GET /protected with the Authorization header auth.
protected(s, auth) ==
  IF auth.type = "string" /\ auth.v \in s.ISSUED_TOKENS
  THEN [s EXCEPT !.last = [route |-> "protected", input |-> auth,
                           status |-> 200, body |-> "Access granted",
                           token |-> ""]]
  ELSE [s EXCEPT !.last = [route |-> "protected", input |-> auth,
                           status |-> 401, body |-> "Unauthorized",
                           token |-> ""]]

\* ------------------------------------------------------------ state machine
\* The script of the free-running specification: any input at any instant.
Free == [name |-> "free", t0 |-> 0, peaks |-> {}, frames |-> 0, k |-> 0]

\* A newly constructed tracker with options o, about to be fed script.
BtNew(o, script) ==
  /\ opts = o
  /\ tracker = construct
  /\ now = script.t0
  /\ result = NoResult
  /\ beats = 0
  /\ wasReset = FALSE
  /\ fresh = construct
  /\ freshResult = NoResult
  /\ scn = script
  /\ accepts = <<>>

\* No tracker is in use.
BtIdle == BtNew(DefaultOpts, Free) /\ life = "ready"

\* Only one component is in use.
IdleButBt == E1Idle /\ ApiIdle /\ DualIdle /\ AdvIdle /\ MonIdle /\ RecIdle /\ SrvIdle
IdleButE1 == BtIdle /\ ApiIdle /\ DualIdle /\ AdvIdle /\ MonIdle /\ RecIdle /\ SrvIdle
IdleButApi == BtIdle /\ E1Idle /\ DualIdle /\ AdvIdle /\ MonIdle /\ RecIdle /\ SrvIdle
IdleButDual == BtIdle /\ E1Idle /\ ApiIdle /\ AdvIdle /\ MonIdle /\ RecIdle /\ SrvIdle
IdleButAdv == BtIdle /\ E1Idle /\ ApiIdle /\ DualIdle /\ MonIdle /\ RecIdle /\ SrvIdle
IdleButMon == BtIdle /\ E1Idle /\ ApiIdle /\ DualIdle /\ AdvIdle /\ RecIdle /\ SrvIdle
IdleButRec == BtIdle /\ E1Idle /\ ApiIdle /\ DualIdle /\ AdvIdle /\ MonIdle /\ SrvIdle
IdleButSrv == BtIdle /\ E1Idle /\ ApiIdle /\ DualIdle /\ AdvIdle /\ MonIdle /\ RecIdle

Init ==
  /\ \E o \in {DefaultOpts, GlobalOpts} : BtNew(o, Free)
  /\ life = "ready"
  /\ IdleButBt

\* One tracker.process(level, t) call; the comparison tracker gets the same.
DoProcess(level, t) ==
  LET p == process(tracker, opts, level, t)
      q == process(fresh, opts, level, t)
  IN /\ tracker' = p.tracker
     /\ result' = resultOf(p)
     /\ now' = t
     /\ beats' = IF p.beat THEN beats + 1 ELSE beats
     /\ fresh' = q.tracker
     /\ freshResult' = resultOf(q)
     /\ accepts' = IF p.beat THEN Append(accepts, t - tracker.lastBeatAt)
                   ELSE accepts
     /\ UNCHANGED <<opts, wasReset, life>>
     /\ UNCHANGED notBt

\* process(level, t) with any level, the clock having advanced to t.
Process ==
  /\ \E level \in Levels, t \in Instants : t > now /\ DoProcess(level, t)
  /\ UNCHANGED scn

\* tracker.reset() (stop() calls it); the comparison tracker is constructed
\* anew, and the results before the reset are forgotten.
Reset ==
  /\ tracker' = reset(tracker)
  /\ fresh' = construct
  /\ beats' = 0
  /\ wasReset' = (wasReset \/ tracker.intervals # <<>>)
  /\ result' = NoResult
  /\ freshResult' = NoResult
  /\ accepts' = <<>>
  /\ UNCHANGED <<opts, now, scn, life>>
  /\ UNCHANGED notBt

Next == Process \/ Reset

Spec == Init /\ [][Next]_vars

\* ---------------------------------------------------------------- scenarios
\* A scenario plays a script: the draw loop calls process() once per frame,
\* 25 ms apart, from clock value t0 on; the level is a full-scale peak (1.0)
\* on the frames whose offset is in the script's peaks and silence (0) on all
\* others, so every peak lasts one frame and is detected on the next.
FrameTime(k) == 25 * k

\* The greatest offset of a set of peaks.
LastOf(peaks) == CHOOSE p \in peaks : \A q \in peaks : q <= p

\* A script: its peaks, and frames until `tail` ms after the last peak.
Script(name, t0, peaks, tail) ==
  [name |-> name, t0 |-> t0, peaks |-> peaks,
   frames |-> (LastOf(peaks) + tail) \div 25 + 1, k |-> 0]

\* The clock value at the first frame: a test clock starting at 0, clocks
\* within the first interval window, and a page that has been open for a while
\* (performance.now() counts from page load).
StartClocks == {0, 250, 275, 475, 725, 750, 975, 5000}

InitScn(o, script) == BtNew(o, script) /\ life = "ready" /\ IdleButBt

\* The next frame of the script.
ScnFrame ==
  /\ scn.name # "free"
  /\ scn.k < scn.frames
  /\ DoProcess(IF FrameTime(scn.k) \in scn.peaks THEN 1000 ELSE 0,
               scn.t0 + FrameTime(scn.k))
  /\ scn' = [scn EXCEPT !.k = @ + 1]

\* The offset of the script's last peak.
LastPeak == LastOf(scn.peaks)

\* The script has been played to its end.
Played == scn.k = scn.frames

\* Scenario A: 6 one-frame peaks 500 ms apart, minInterval 300, maxInterval
\* 750, minBeats 4.
InitA ==
  \E t0 \in StartClocks :
    InitScn(ScenarioAOpts, Script("A", t0, {500 * i : i \in 0..5}, 75))

SpecA == InitA /\ [][ScnFrame]_vars

\* Scenario B: a single isolated peak, then silence for more than 3 seconds.
InitB ==
  \E t0 \in StartClocks : InitScn(DefaultOpts, Script("B", t0, {0}, 3200))

SpecB == InitB /\ [][ScnFrame]_vars

\* Scenario C: peaks whose gaps alternate between 500 ms and 1000 ms, starting
\* with either.
AlternatingPeaks(first) ==
  { 1500 * (j \div 2) + first * (j % 2) : j \in 0..(MaxPeaksC - 1) }

InitC ==
  \E t0 \in StartClocks, first \in {500, 1000} :
    InitScn(DefaultOpts, Script("C", t0, AlternatingPeaks(first), 75))

SpecC == InitC /\ [][ScnFrame]_vars

\* Scenario D: peaks 500 ms apart, and one more peak two frames after one of
\* them, so that it is detected 50 ms after that beat.
InitD ==
  \E t0 \in StartClocks, o \in {DefaultOpts, GlobalOpts}, i \in 0..5 :
    InitScn(o, Script("D", t0, {500 * j : j \in 0..5} \cup {500 * i + 50}, 125))

SpecD == InitD /\ [][ScnFrame]_vars

\* Lock, then silence: 5 peaks a fixed gap apart, then silence for more than
\* 3 seconds.
InitQ ==
  \E t0 \in StartClocks, gap \in {400, 500, 600} :
    InitScn(DefaultOpts, Script("Q", t0, {gap * j : j \in 0..4}, 3200))

SpecQ == InitQ /\ [][ScnFrame]_vars

\* Scenario N: a long run of peaks, either a steady 500 ms apart or with gaps
\* that grow by 25 ms from 400 ms on, so that every interval is different.
RampPeaks == { 400 * j + 25 * ((j * (j - 1)) \div 2) : j \in 0..(MaxPeaksN - 1) }

SteadyPeaks == { 500 * j : j \in 0..(MaxPeaksN - 1) }

InitN ==
  \E t0 \in StartClocks, peaks \in {RampPeaks, SteadyPeaks} :
    InitScn(DefaultOpts, Script("N", t0, peaks, 75))

SpecN == InitN /\ [][ScnFrame]_vars

\* Scenario L: peaks that keep arriving 500 ms apart, from the first frame on
\* ("L0") or after a lock of 5 peaks and a silence of 2 seconds ("L1").
MaxPeaksL == 8

RegularPeaks(from) == { from + 500 * j : j \in 0..(MaxPeaksL - 1) }

InitL ==
  \E t0 \in StartClocks :
    \/ InitScn(DefaultOpts, Script("L0", t0, RegularPeaks(0), 75))
    \/ InitScn(DefaultOpts,
               Script("L1", t0, {500 * j : j \in 0..4} \cup RegularPeaks(4000), 75))

\* The offset at which the regular peaks of scenario L begin.
ResumeOffset == IF scn.name = "L1" THEN 4000 ELSE 0

\* The script moves to its next frame: what every ScnFrame step does to scn.
NextFrame ==
  /\ scn.name # "free"
  /\ scn.k < scn.frames
  /\ scn' = [scn EXCEPT !.k = @ + 1]

\* The draw loop runs on every animation frame, so as long as the script has
\* frames left the next one comes.
SpecL == InitL /\ [][ScnFrame]_vars /\ WF_scn(NextFrame)

\* Scenario K: the level stays where it is, at full scale or at silence, for
\* MaxFramesK frames.
MaxFramesK == 40

ConstantScript(t0, high) ==
  [name |-> "K", t0 |-> t0,
   peaks |-> IF high THEN { FrameTime(k) : k \in 0..MaxFramesK } ELSE {},
   frames |-> MaxFramesK, k |-> 0]

InitK ==
  \/ Init
  \/ \E t0 \in StartClocks, high \in BOOLEAN, o \in {DefaultOpts, GlobalOpts} :
       InitScn(o, ConstantScript(t0, high))

\* Any calls at any instants, or the frames of a constant level.
NextK == (scn.name = "free" /\ Next) \/ ScnFrame

SpecK == InitK /\ [][NextK]_vars

\* Scenario M: the BabyBeat global's tracker hears a rhythm that changes once:
\* n1 gaps of g1 ms, then gaps of g2 ms.
MaxPeaksM == 8

TwoRhythmPeaks(g1, n1, g2) ==
  { g1 * Min(j, n1) + g2 * Max(0, j - n1) : j \in 0..(MaxPeaksM - 1) }

InitM ==
  \E t0 \in {0, 250}, g1 \in {500, 600, 1000}, g2 \in {500, 600, 1000},
     n1 \in 0..4 :
    InitScn(GlobalOpts, Script("M", t0, TwoRhythmPeaks(g1, n1, g2), 75))

SpecM == InitM /\ [][ScnFrame]_vars

\* Construction with options from the page: BabyBeat.start merges
\* BabyBeat.config over DEFAULTS and hands the values to the constructor, which
\* stores whatever it is given (?? replaces only null and undefined).
ConfigChoices ==
  { GlobalOpts,
    [GlobalOpts EXCEPT !.minBeats = 0],
    [GlobalOpts EXCEPT !.minBeats = -2],
    [GlobalOpts EXCEPT !.tolerance = -12],
    [GlobalOpts EXCEPT !.minInterval = 1200, !.maxInterval = 300] }

\* Options in range: the conditions the claim names.
ValidOptions(o) ==
  o.minBeats > 0 /\ o.tolerance >= 0 /\ o.minInterval <= o.maxInterval

InitV ==
  /\ \E t0 \in StartClocks :
       BtNew(GlobalOpts, Script("V", t0, {500 * i : i \in 0..5}, 75))
  /\ life = "none"
  /\ IdleButBt

\* new BeatTracker(options) from BabyBeat.start.
ConstructV ==
  /\ life = "none"
  /\ \E o \in ConfigChoices : opts' = o
  /\ tracker' = construct
  /\ fresh' = construct
  /\ life' = "ready"
  /\ UNCHANGED <<now, result, beats, wasReset, freshResult, scn, accepts>>
  /\ UNCHANGED notBt

\* _tick: the constructed tracker is fed the next frame.
FrameV == life = "ready" /\ ScnFrame

NextV == ConstructV \/ FrameV

SpecV == InitV /\ [][NextV]_vars

\* ------------------------------- the first initBabyBeat engine: behaviours
\* The audio time of the k-th buffer: one buffer every 50 ms of audio time
\* (audio time stands still while the context is suspended).
E1FrameTime(k) == 50 * k

\* Sound scripts: MaxPeaksE1 crossings from audio time `first` on, the first
\* n1 gaps g1 long and the later ones g2 long.
E1Peaks(first, g1, n1, g2) ==
  { first + g1 * Min(j, n1) + g2 * Max(0, j - n1) : j \in 0..(MaxPeaksE1 - 1) }

\* 350 ms is 171 BPM (above the range), 400 and 500 ms are 150 and 120 BPM,
\* 1200 ms is 50 BPM (below the range), 1250 ms is outside the window.
E1Gaps == {350, 400, 500, 1200, 1250}

E1Script(peaks) ==
  [peaks |-> peaks, k |-> 0, frames |-> LastOf(peaks) \div 50 + 1]

InitE1 ==
  /\ IdleButE1
  /\ e1 = E1New
  /\ \E first \in {50, 350}, g1 \in E1Gaps, g2 \in E1Gaps, n1 \in {1, 5} :
       e1in = E1Script(E1Peaks(first, g1, n1, g2))

\* start(): nothing when already running; otherwise the context is created
\* or resumed and running becomes true.  Detector state is not touched.
E1Start ==
  /\ ~e1.running
  /\ e1.sessions < MaxSessions
  /\ e1' = [e1 EXCEPT !.running = TRUE, !.sessions = @ + 1, !.fresh = TRUE]
  /\ UNCHANGED <<e1in, notE1>>

\* stop(): running becomes false and the context is suspended.  Detector
\* state is not touched.
E1Stop ==
  /\ e1' = [e1 EXCEPT !.running = FALSE, !.fresh = FALSE]
  /\ UNCHANGED <<e1in, notE1>>

\* The context delivers the next buffer to onAudioProcess.
E1Audio ==
  /\ e1.running
  /\ e1in.k < e1in.frames
  /\ LET nowMs == E1FrameTime(e1in.k + 1)
         candidate == nowMs \in e1in.peaks
     IN e1' = [onAudioProcess(e1, candidate, nowMs) EXCEPT
                 !.clock = nowMs, !.crossed = candidate, !.fresh = FALSE]
  /\ e1in' = [e1in EXCEPT !.k = @ + 1]
  /\ UNCHANGED notE1

NextE1 == E1Start \/ E1Stop \/ E1Audio

SpecE1 == InitE1 /\ [][NextE1]_vars

\* ------------------------------------------------------ api/core: behaviours
\* Deployments differ in CORE_TOKEN and in whether the core file is there.
InitApi ==
  /\ IdleButApi
  /\ \E valid \in EnvValues, exists \in BOOLEAN : api = ApiNew(valid, exists)

\* One request is handled.
ApiRequest ==
  /\ api.requests < MaxRequests
  /\ \E token \in TokenValues :
       LET r == core(token, api.valid, api.exists)
       IN api' = [api EXCEPT !.token = token, !.status = r.status,
                             !.body = r.body, !.requests = @ + 1]
  /\ UNCHANGED notApi

SpecApi == InitApi /\ [][ApiRequest]_vars

\* ----------------------------------------- the dual-band engine: behaviours
\* Sound scripts, one buffer every 50 ms of audio time.  Two-phase scripts:
\* MaxPeaksDual loud buffers from `first` on, the first n1 gaps g1 long and the
\* later ones g2 long.  350 ms is not past the refractory period, 400 ms is
\* 150 BPM (fetal), 600 ms is 100 BPM (both windows), 1200 ms is 50 BPM
\* (maternal), 1550 ms is under 40 BPM.
DualGaps == {350, 400, 600, 1200, 1550}

DualPeaks(first, g1, n1, g2) ==
  { first + g1 * Min(j, n1) + g2 * Max(0, j - n1) : j \in 0..(MaxPeaksDual - 1) }

\* A script whose gaps grow by 50 ms from 400 ms on: every interval differs.
DualRampPeaks(first) ==
  { first + 400 * j + 50 * ((j * (j - 1)) \div 2) : j \in 0..(MaxPeaksDual - 1) }

InitDual ==
  /\ IdleButDual
  /\ dual = DualNew
  /\ \E first \in {50, 400} :
       \/ \E g1 \in DualGaps, g2 \in DualGaps, n1 \in {2, 5} :
            dualin = E1Script(DualPeaks(first, g1, n1, g2))
       \/ dualin = E1Script(DualRampPeaks(first))

\* The context delivers the next buffer to onAudioProcess.
DualAudio ==
  /\ dualin.k < dualin.frames
  /\ LET nowMs == E1FrameTime(dualin.k + 1)
         rising == nowMs \in dualin.peaks
     IN dual' = [dualOnAudioProcess(dual, rising, nowMs) EXCEPT
                   !.clock = nowMs, !.rose = rising]
  /\ dualin' = [dualin EXCEPT !.k = @ + 1]
  /\ UNCHANGED notDual

SpecDual == InitDual /\ [][DualAudio]_vars

\* ------------------------------------------ the advanced engine: behaviours
\* Sound scripts, one buffer every 50 ms of audio time: MaxPeaksAdv peak
\* buffers from `first` on, the first n1 gaps g1 long and the later ones g2
\* long.  300 ms is under MIN_INTERVAL_MS, 350 and 500 ms are in the window,
\* 550 and 800 ms are over MAX_INTERVAL_MS but under 1.5 times it, 850 ms is
\* over that.  In `weak` scripts every second peak is of low quality.
AdvGaps == {300, 350, 500, 550, 800, 850}

AdvPeaks(first, g1, n1, g2) ==
  { first + g1 * Min(j, n1) + g2 * Max(0, j - n1) : j \in 0..(MaxPeaksAdv - 1) }

AdvScript(peaks, weak) ==
  [peaks |-> peaks, weak |-> weak, k |-> 0, frames |-> LastOf(peaks) \div 50 + 1]

InitAdv ==
  /\ IdleButAdv
  /\ adv = AdvNew
  /\ \E first \in {50, 400}, g1 \in AdvGaps, g2 \in AdvGaps, n1 \in {1, 5},
        w \in BOOLEAN :
       LET peaks == AdvPeaks(first, g1, n1, g2)
       IN advin = AdvScript(peaks,
                    IF w THEN { p \in peaks : (p \div 50) % 2 = 1 } ELSE {})

\* The context delivers the next buffer to onAudioProcess.
AdvAudio ==
  /\ advin.k < advin.frames
  /\ LET nowMs == E1FrameTime(advin.k + 1)
     IN adv' = [advOnAudioProcess(adv, nowMs \in advin.peaks,
                                  nowMs \notin advin.weak, nowMs)
                  EXCEPT !.clock = nowMs]
  /\ advin' = [advin EXCEPT !.k = @ + 1]
  /\ UNCHANGED notAdv

SpecAdv == InitAdv /\ [][AdvAudio]_vars

\* --------------------------- the first engine's graph and monitor: behaviours

\* What the slider can hold, and what setMonitorVol can be handed.
SliderValues == {0, 50, 100, 150}
Percents == {-10, 0, 50, 100, 150}

\* The page has a monitor-volume slider or not; the engine has just been built.
InitMon ==
  /\ IdleButMon
  /\ \E s \in BOOLEAN :
       \E v \in (IF s THEN SliderValues ELSE {0}) :
         mon = [MonNew EXCEPT !.hasSlider = s, !.vol = v]

\* start() is invoked.
MonStart(i) ==
  /\ mon.pc[i] = "idle"
  /\ mon' = startCall(mon, i)
  /\ UNCHANGED notMon

\* getUserMedia resolves for an invocation of start().
MonMic(i) ==
  /\ mon.pc[i] = "mic"
  /\ mon' = micGranted(mon, i)
  /\ UNCHANGED notMon

\* An invocation of start() runs to its end.
MonStarted(i) ==
  /\ mon.pc[i] = "resume"
  /\ mon' = startDone(mon, i)
  /\ UNCHANGED notMon

MonStop ==
  /\ mon' = stop(mon)
  /\ UNCHANGED notMon

MonToggle ==
  /\ mon' = toggleMonitor(mon)
  /\ UNCHANGED notMon

MonSetVol(p) ==
  /\ mon' = setMonitorVol(mon, p)
  /\ UNCHANGED notMon

\* The slider is moved; the listener exists only if the slider does.
MonSlider(v) ==
  /\ mon.hasSlider
  /\ mon' = sliderInput(mon, v)
  /\ UNCHANGED notMon

NextMon ==
  \/ \E i \in 1..MaxStarts : MonStart(i)
  \/ \E i \in 1..MaxStarts : MonMic(i)
  \/ \E i \in 1..MaxStarts : MonStarted(i)
  \/ MonStop
  \/ MonToggle
  \/ \E p \in Percents : MonSetVol(p)
  \/ \E v \in SliderValues : MonSlider(v)

SpecMon == InitMon /\ [][NextMon]_vars

\* ------------------------------------------ BabyBeatEngine: behaviours

InitRec == IdleButRec /\ rec = RecNew

\* The engine starts listening, once.
RecListen ==
  /\ ~rec.mediaDest
  /\ \E ok \in BOOLEAN : rec' = startListening(rec, ok)
  /\ UNCHANGED notRec

\* The API's startRecording().
RecStartRecording ==
  /\ rec.calls < MaxRecCalls
  /\ \E ok \in BOOLEAN : rec' = toggleRecording(rec, ok, "startRecording")
  /\ UNCHANGED notRec

\* The API's stopRecording().
RecStopRecording ==
  /\ rec.calls < MaxRecCalls
  /\ \E ok \in BOOLEAN : rec' = toggleRecording(rec, ok, "stopRecording")
  /\ UNCHANGED notRec

NextRec == RecListen \/ RecStartRecording \/ RecStopRecording

SpecRec == InitRec /\ [][NextRec]_vars

\* ---------------------------------------------- the Express server: behaviours

\* The tokens randomBytes can give, the session ids and the Authorization
\* headers requests carry.
TokenPool == {"t1", "t2", "t3"}

SessionIds ==
  {Undefined, Str(""), Str("cs_paid"), Str("cs_unpaid"), Str("cs_free"),
   Str("bogus")}

AuthHeaders ==
  {Undefined, Str(""), Str("Bearer t1"), Str("T1")}
    \cup {Str(t) : t \in TokenPool}

InitSrv == IdleButSrv /\ srv = SrvNew

SrvVerifySession ==
  /\ \E id \in SessionIds, t \in TokenPool : srv' = verifySession(srv, id, t)
  /\ UNCHANGED notSrv

SrvProtected ==
  /\ \E a \in AuthHeaders : srv' = protected(srv, a)
  /\ UNCHANGED notSrv

NextSrv == SrvVerifySession \/ SrvProtected

SpecSrv == InitSrv /\ [][NextSrv]_vars

\* ------------------------------------------------------------------- claims
\* C1: after any sequence of process() calls with an advancing clock,
\* interleaved with reset() calls, every element of tracker.intervals lies
\* within [minInterval, maxInterval].
C1_IntervalsInWindow ==
  \A k \in 1..Len(tracker.intervals) :
    /\ tracker.intervals[k] >= opts.minInterval
    /\ tracker.intervals[k] <= opts.maxInterval

\* C1's case: intervals at both ends of the window were recorded, and a
\* falling edge too soon after the last beat has just been turned down.
C1_Witness ==
  /\ \E k \in 1..Len(tracker.intervals) : tracker.intervals[k] = opts.minInterval
  /\ \E k \in 1..Len(tracker.intervals) : tracker.intervals[k] = opts.maxInterval
  /\ tracker.state = "below" /\ tracker.peak = 800
  /\ now - tracker.lastBeatAt > 0
  /\ now - tracker.lastBeatAt < opts.minInterval

\* C2: in every tracker state and in every result process() returns,
\* hasPattern = false implies bpm = null.
C2_NoBpmWithoutPattern ==
  /\ ~tracker.hasPattern => tracker.bpm = null
  /\ ~result.hasPattern => result.bpm = null

\* C2's case: a tracker that had locked lost its pattern to an inconsistent
\* interval, and the call that registered it returned the result.
C2_Witness ==
  /\ result.beat
  /\ ~result.hasPattern
  /\ Len(tracker.intervals) >= opts.minBeats
  /\ consistent(SubSeq(tracker.intervals, 1, Len(tracker.intervals) - 1), opts)

\* C3: process() never returns hasPattern = true or a non-null bpm before it
\* has returned beat = true at least minBeats times since construction or the
\* last reset().
C3_NoLockBeforeMinBeats ==
  beats < opts.minBeats => (~result.hasPattern /\ result.bpm = null)

\* C4: the first process() call that returns beat = true after construction or
\* reset() records no interval and leaves bpm alone.
C4_FirstBeatOnlyAnchors ==
  (beats = 1 /\ result.beat) => (tracker.intervals = <<>> /\ tracker.bpm = null)

\* C6: after reset(), a sequence of inputs yields the same results as on a
\* freshly constructed tracker with the same options.
C6_ResetLikeFresh == result = freshResult

\* C6's case: a tracker that held intervals was reset and has since accepted
\* beats again.
C6_Witness == wasReset /\ beats >= 2 /\ result.beat
\* C5: once the tracker has locked and only silence follows for longer than
\* the lock timeout (3 seconds at most), the results have hasPattern = false
\* and bpm = null.
C5_LockTimesOut ==
  (scn.k >= 1 /\ FrameTime(scn.k - 1) - LastPeak > 3000)
    => (~result.hasPattern /\ result.bpm = null)

\* C7: in scenario A the 4th interval is registered by the time the 6 peaks
\* have been played, and from its registration on the tracker reports
\* hasPattern = true with bpm = 120.
C7_ScenarioALocks ==
  /\ Played => Len(tracker.intervals) >= 4
  /\ Len(tracker.intervals) >= 4 => (result.hasPattern /\ result.bpm = 120)

\* C8: a falling edge 50 ms after the previous accepted beat is ignored: the
\* call returns beat = false and leaves the last-beat timestamp, the interval
\* history, bpm, hasPattern and confidence as they were.
C8_RefractoryPeakIgnored ==
  [][(/\ beats >= 1
      /\ tracker.state = "above" /\ tracker'.state = "below"
      /\ now' - tracker.lastBeatAt = 50)
     => (/\ ~result'.beat
         /\ beats' = beats
         /\ tracker'.lastBeatAt = tracker.lastBeatAt
         /\ tracker'.intervals = tracker.intervals
         /\ tracker'.bpm = tracker.bpm
         /\ tracker'.hasPattern = tracker.hasPattern
         /\ tracker'.confidence = tracker.confidence)]_vars

\* C8's case: a locked tracker has just seen the falling edge of a peak 50 ms
\* after its last accepted beat.
C8_Witness ==
  /\ tracker.hasPattern
  /\ tracker.state = "below" /\ tracker.peak = 800
  /\ now - tracker.lastBeatAt = 50

\* C9: when the accepted intervals alternate between 500 ms and 1000 ms (12 %
\* tolerance, minBeats 4, window 300..1200), hasPattern is never true.
C9_AlternatingNeverLocks == ~tracker.hasPattern /\ ~result.hasPattern

\* C9's case: six intervals, alternating between 500 and 1000, were accepted.
C9_Witness ==
  /\ Len(tracker.intervals) >= 6
  /\ \A k \in 1..Len(tracker.intervals) : tracker.intervals[k] \in {500, 1000}
  /\ \A k \in 1..(Len(tracker.intervals) - 1) :
       tracker.intervals[k] # tracker.intervals[k + 1]

\* C10: a single isolated peak makes process() return beat = true exactly
\* once, and every later result has hasPattern = false and bpm = null.
C10_SinglePeakOneBeat ==
  /\ beats <= 1
  /\ Played => beats = 1
  /\ scn.k >= 2 => (~result.hasPattern /\ result.bpm = null)

\* C11: tracker.intervals never holds more than 10 entries, and it is always
\* the most recent (up to 10) of the intervals accepted since construction or
\* reset(), in the order they were accepted.
C11_IntervalsAreLastTen ==
  /\ Len(tracker.intervals) <= MaxIntervals
  /\ tracker.intervals = sliceLast(accepts, MaxIntervals)

\* C11's case: more than 10 different intervals were accepted, so the oldest
\* ones have been evicted.
C11_Witness ==
  /\ Len(accepts) > MaxIntervals
  /\ Len(tracker.intervals) = MaxIntervals
  /\ accepts[1] # accepts[2]
  /\ tracker.intervals[1] # accepts[1]

\* C12: the confidence process() returns (in percent) is always within
\* [0, 100], that is [0, 1], and is 0 whenever hasPattern is false.
C12_ConfidenceInRange ==
  /\ result.confidence >= 0 /\ result.confidence <= 100
  /\ ~result.hasPattern => result.confidence = 0

\* C12's case: a tracker that had locked with 4 or more intervals, so with a
\* confidence above one half, has just lost the pattern on a beat.
C12_Witness ==
  /\ result.beat /\ ~result.hasPattern /\ result.confidence = 0
  /\ Len(tracker.intervals) >= 5
  /\ consistent(SubSeq(tracker.intervals, 1, Len(tracker.intervals) - 1), opts)

\* C13: detector state of the first engine does not persist across listening
\* sessions: right after stop() followed by start(), lastBeatTime is 0,
\* beatIntervals is empty and bpmDisplay is 0.
C13_RestartClearsDetector ==
  (e1.running /\ e1.fresh /\ e1.sessions >= 2) =>
    (e1.lastBeatTime = 0 /\ e1.beatIntervals = <<>> /\ e1.bpmDisplay = 0)

\* C14: constructing a BeatTracker (directly or through BabyBeat.start with an
\* overriding config) with out-of-range options (minBeats <= 0, a negative
\* tolerance, minIntervalMs > maxIntervalMs) fails; no tracker that processes
\* frames comes to exist with such options.
C14_InvalidOptionsRejected == ~ValidOptions(opts) => life # "ready"

\* C15: api/core answers 200 with the core script only when the token query
\* parameter equals a non-empty CORE_TOKEN; every other request, and every
\* request when CORE_TOKEN is unset, is answered 403 without core content.
C15_CoreOnlyWithToken ==
  LET tokenMatches ==
        /\ api.valid.type = "string" /\ api.valid.v # ""
        /\ api.token.type = "string" /\ api.token.v = api.valid.v
  IN api.requests > 0 =>
       /\ api.status = 200 => tokenMatches
       /\ api.body = "core" => api.status = 200
       /\ ~tokenMatches => (api.status = 403 /\ api.body # "core")

\* C15's case: CORE_TOKEN is unset and a request without any token, which
\* compares equal to it, has been refused.
C15_Witness ==
  /\ api.requests > 0
  /\ api.valid = Undefined /\ api.token = Undefined /\ api.exists
  /\ api.status = 403

\* C16: a threshold crossing more than MAX_INTERVAL_MS after lastBeatTime
\* leaves beatIntervals and bpmDisplay unchanged but sets lastBeatTime to the
\* current time.
C16_LateCrossingOnlyAnchors ==
  [][(/\ e1'.clock > e1.clock
      /\ e1'.crossed
      /\ e1'.clock - e1.lastBeatTime > MAX_INTERVAL_MS)
     => (/\ e1'.beatIntervals = e1.beatIntervals
         /\ e1'.bpmDisplay = e1.bpmDisplay
         /\ e1'.lastBeatTime = e1'.clock)]_vars

\* C16's case: an engine that holds intervals and an estimate has just seen a
\* crossing 1250 ms after the previous one, and measures from it now.
C16_Witness ==
  /\ e1.crossed
  /\ (e1.clock - 1250) \in e1in.peaks
  /\ \A p \in e1in.peaks : ~(e1.clock - 1250 < p /\ p < e1.clock)
  /\ e1.lastBeatTime = e1.clock
  /\ Len(e1.beatIntervals) >= 4
  /\ e1.bpmDisplay > 0

\* C17: after any sequence of audio callbacks (and start/stop), bpmDisplay is
\* either 0 or within [MIN_FETAL_BPM, MAX_FETAL_BPM].
C17_DisplayInFetalRange ==
  \/ e1.bpmDisplay = 0
  \/ /\ e1.bpmDisplay >= 1000 * MIN_FETAL_BPM
     /\ e1.bpmDisplay <= 1000 * MAX_FETAL_BPM

\* C17's case: every interval heard was 350 ms (171.4 BPM, above the range),
\* and the estimate sits at the upper end of the range.
C17_Witness ==
  /\ Len(e1.beatIntervals) >= 3
  /\ \A i \in 1..Len(e1.beatIntervals) : e1.beatIntervals[i] = 350
  /\ e1.bpmDisplay = 1000 * MAX_FETAL_BPM

\* A buffer with a crossing whose interval since lastBeatTime is accepted and
\* in the window, as a step from e to f.
AcceptedInterval(e, f) ==
  /\ f.clock > e.clock
  /\ f.crossed
  /\ e.lastBeatTime > 0
  /\ f.clock - e.lastBeatTime > MIN_INTERVAL_MS
  /\ f.clock - e.lastBeatTime <= MAX_INTERVAL_MS

\* C18: each accepted in-window interval sets bpmDisplay to
\* alpha*raw + (1-alpha)*prev with alpha = 0.15 (up to the rounding of a
\* thousandth), raw being 60000 / median(last 8 intervals) clamped to
\* [100, 170]; with no previous estimate the new bpmDisplay is raw exactly; the
\* new value lies between prev and raw.
C18_DisplayIsSmoothed ==
  [][AcceptedInterval(e1, e1') =>
       LET ivs == e1'.beatIntervals
           med2 == median2(sliceLast(ivs, 8))
           raw == Min(170000, Max(100000, 120000000 \div med2))
           prev == e1.bpmDisplay
           new == e1'.bpmDisplay
       IN /\ ivs # <<>> /\ ivs[Len(ivs)] = e1'.clock - e1.lastBeatTime
          /\ prev = 0 => new = raw
          /\ prev # 0 => Abs(100 * new - (15 * raw + 85 * prev)) < 100
          /\ prev # 0 => (Min(prev, raw) <= new /\ new <= Max(prev, raw))]_vars

\* C18's case: more than 8 intervals of two different lengths are held, a
\* crossing has just been recorded, and the estimate is on its way between the
\* old and the new rate.
C18_Witness ==
  /\ e1.crossed /\ e1.lastBeatTime = e1.clock
  /\ Len(e1.beatIntervals) >= 9
  /\ e1.beatIntervals[1] # e1.beatIntervals[Len(e1.beatIntervals)]
  /\ e1.bpmDisplay > 1000 * MIN_FETAL_BPM
  /\ e1.bpmDisplay < 1000 * MAX_FETAL_BPM
  /\ e1.bpmDisplay # 120000000 \div median2(sliceLast(e1.beatIntervals, 8))

\* C20 as stated: when the BPM computed from the median interval is outside
\* [MIN_FETAL_BPM, MAX_FETAL_BPM], the value is discarded and bpmDisplay keeps
\* its previous value.
C20_OutOfRangeDiscarded ==
  [][AcceptedInterval(e1, e1') =>
       LET computed == 120000000 \div median2(sliceLast(e1'.beatIntervals, 8))
       IN (computed < 1000 * MIN_FETAL_BPM \/ computed > 1000 * MAX_FETAL_BPM)
          => e1'.bpmDisplay = e1.bpmDisplay]_vars

\* C20, amended: when the BPM computed from the median interval is outside
\* [MIN_FETAL_BPM, MAX_FETAL_BPM], it is replaced by the nearer end of the
\* range and bpmDisplay is smoothed toward that end: set to it when there is no
\* previous estimate, moved 15 % of the way toward it otherwise.
C20_OutOfRangeClamped ==
  [][AcceptedInterval(e1, e1') =>
       LET computed == 120000000 \div median2(sliceLast(e1'.beatIntervals, 8))
           nearer == IF computed < 1000 * MIN_FETAL_BPM
                     THEN 1000 * MIN_FETAL_BPM ELSE 1000 * MAX_FETAL_BPM
           prev == e1.bpmDisplay
       IN (computed < 1000 * MIN_FETAL_BPM \/ computed > 1000 * MAX_FETAL_BPM)
          => /\ prev = 0 => e1'.bpmDisplay = nearer
             /\ prev # 0 =>
                  Abs(100 * (e1'.bpmDisplay - prev) - 15 * (nearer - prev)) < 100]_vars

\* C20's case: the only interval heard is 1200 ms (50 BPM), and the display
\* shows the lower end of the range.
C20_Witness ==
  /\ e1.crossed /\ e1.lastBeatTime = e1.clock
  /\ e1.beatIntervals = <<1200>>
  /\ e1.bpmDisplay = 1000 * MIN_FETAL_BPM

\* C19: whenever the previous BPM is non-zero, an update changes fetalBpm, and
\* likewise maternalBpm, by at most MAX_BPM_STEP (6 BPM), the final clamp into
\* the fetal or maternal window included.
C19_StepAtMostSix ==
  [][/\ dual.fetalBpm # 0 =>
          Abs(dual'.fetalBpm - dual.fetalBpm) <= 1000 * MAX_BPM_STEP
     /\ dual.maternalBpm # 0 =>
          Abs(dual'.maternalBpm - dual.maternalBpm) <= 1000 * MAX_BPM_STEP]_vars

\* C19's case: the rate heard has dropped from 150 BPM to 100 BPM, and fetalBpm
\* has come down from 150 by exactly one full step.
C19_Witness ==
  /\ dual.rose /\ dual.lastBeatTime = dual.clock
  /\ Len(dual.fetalIntervals) >= 8
  /\ dual.fetalIntervals[1] = 400
  /\ dual.fetalIntervals[Len(dual.fetalIntervals)] = 600
  /\ dual.fetalBpm = 1000 * (150 - MAX_BPM_STEP)

\* C21: after any sequence of audio callbacks, every interval stored in the
\* advanced engine's beatIntervals lies within [MIN_INTERVAL_MS,
\* MAX_INTERVAL_MS] = [60000/180, 60000/110] ms.
C21_AdvIntervalsInWindow ==
  \A i \in 1..Len(adv.beatIntervals) :
    advAtLeastMin(adv.beatIntervals[i]) /\ advAtMostMax(adv.beatIntervals[i])

\* C22: in the dual-band engine registerBeat is never invoked for two
\* buffers 350 ms or less apart: every invocation after the first comes more
\* than REFRACTORY_MS after the previous one, whether or not that one's
\* interval went into a history.
C22_BeatsPastRefractory ==
  Len(dual.calls) = 2 => dual.calls[2] - dual.calls[1] > DUAL_REFRACTORY_MS

\* C22's case: the previous invocation's interval (1550 ms, under 40 BPM) was
\* thrown away, and the next invocation 400 ms later was measured from it.
C22_Witness ==
  /\ Len(dual.calls) = 2
  /\ (dual.calls[1] - 1550) \in dualin.peaks
  /\ dual.calls[2] - dual.calls[1] = 400
  /\ dual.fetalIntervals = <<400>>
  /\ dual.maternalIntervals = <<>>

\* C29: every interval stored in fetalIntervals is greater than REFRACTORY_MS
\* (350 ms) and at most 600 ms, so fetalBpm, whenever non-zero, lies in
\* [100, 60000/350) and never reaches the part of the declared fetal range
\* above that, up to FETAL_BPM_MAX = 190.
C29_FetalBelowRefractoryRate ==
  /\ \A i \in 1..Len(dual.fetalIntervals) :
       dual.fetalIntervals[i] > DUAL_REFRACTORY_MS /\ dual.fetalIntervals[i] <= 600
  /\ dual.fetalBpm # 0 =>
       /\ dual.fetalBpm >= 1000 * FETAL_BPM_MIN
       /\ dual.fetalBpm * DUAL_REFRACTORY_MS < 60000000
       /\ dual.fetalBpm < 1000 * FETAL_BPM_MAX

\* C29's case: the fastest rhythm the scripts hold (400 ms) has been heard
\* long enough for fetalBpm to be its rate, 150 BPM.
C29_Witness ==
  /\ Len(dual.fetalIntervals) >= 4
  /\ \A i \in 1..Len(dual.fetalIntervals) : dual.fetalIntervals[i] = 400
  /\ dual.fetalBpm = 150000


C28_OneGraph ==
  mon.contexts <= 1 /\ mon.streams <= 1 /\ mon.processors <= 1


\* C24: after any sequence of startRecording() and stopRecording() calls,
\* isRecording is true exactly when the last call that found a recorder was
\* startRecording(): startRecording never stops a recording and stopRecording
\* never starts one.
C24_RecordingFollowsLastCall ==
  rec.log # <<>> =>
    (rec.isRecording <=> rec.log[Len(rec.log)] = "startRecording")


\* C25: /protected answers 'Access granted' only for an Authorization header
\* equal to a token that /verify-session returned for a paid session;
\* ISSUED_TOKENS holds only such tokens; and /verify-session answers a
\* missing session_id with 400, an unknown one with 400 and an unpaid one
\* with 403, each without a token.
C25_AccessOnlyWithPaidToken ==
  /\ srv.ISSUED_TOKENS = srv.paidFor
  /\ (srv.last.route = "protected" /\ srv.last.body = "Access granted") =>
       (srv.last.input.type = "string" /\ srv.last.input.v \in srv.paidFor)
  /\ srv.last.route = "verify-session" =>
       LET id == srv.last.input
           paid == ~falsy(id) /\ paymentStatus(id.v) = "paid"
       IN  /\ falsy(id) => srv.last.status = 400
           /\ (~falsy(id) /\ paymentStatus(id.v) = "throws") =>
                srv.last.status = 400
           /\ (~falsy(id) /\ paymentStatus(id.v) \notin {"paid", "throws"}) =>
                srv.last.status = 403
           /\ ~paid => srv.last.token = ""
           /\ paid => (srv.last.status = 200 /\ srv.last.token \in srv.paidFor)

\* A token was issued for a paid session, an unpaid session was refused after
\* it, and the token then opened /protected.
C25_Witness ==
  /\ srv.paidFor = {"t2"}
  /\ srv.last.route = "protected"
  /\ srv.last.body = "Access granted"
  /\ srv.last.input = Str("t2")


\* C26: once peaks keep arriving every 500 ms, from whatever clock value and
\* after whatever silence, process() eventually returns beat = true.
C26_BeatsAgain ==
  (scn.name \in {"L0", "L1"} /\ FrameTime(scn.k) = ResumeOffset) ~> result.beat


\* The state the counterexample to C26 ends in is closed: once the clock is
\* more than maxInterval past _lastBeatAt, no call returns a beat and the
\* clock stays that far past it, whatever the levels and instants.
Dead == now - tracker.lastBeatAt > opts.maxInterval

DeadStaysDead == [][Dead => (Dead' /\ ~result'.beat)]_vars

\* C27: a call returns beat = true only if it moves _state from 'above' to
\* 'below'; _state is only ever 'above' or 'below', so between two such calls
\* one moved it from 'below' to 'above'; and a level that stays where it is
\* never gives a beat.
C27_BeatOnlyOnFallingEdge ==
  [][/\ tracker'.state \in {"above", "below"}
     /\ result'.beat => (tracker.state = "above" /\ tracker'.state = "below")
     /\ scn.name = "K" => ~result'.beat]_vars

\* Two beats have been returned, the second by the latest call.
C27_Witness == scn.name = "free" /\ beats >= 2 /\ result.beat


\* C30: while hasPattern is true, 60000 / bpm is within tolerance of the
\* median of the last minBeats-1 intervals, bpm being taken up to its
\* rounding: some rate in [bpm - 1/2, bpm + 1/2] has its interval within
\* tolerance of that median.
C30_BpmMatchesLockRhythm ==
  (scn.name = "M" /\ tracker.hasPattern) =>
    LET med2 == median2(sliceLast(tracker.intervals, opts.minBeats - 1))
    IN  /\ 24000000 <= (100 + opts.tolerance) * med2 * (2 * tracker.bpm + 1)
        /\ 24000000 >= (100 - opts.tolerance) * med2 * (2 * tracker.bpm - 1)

====
